---- MODULE Spec2Model ----
(***************************************************************************)
(* Model of parsePlanText (src/server.js:27-51): the forEach loop over the *)
(* lines of an LLM-produced plan, its two regular expressions, and the     *)
(* Date arithmetic that stamps each task with a calendar date.             *)
(*                                                                         *)
(* Strings are sequences of one-character strings.  "*" stands for the     *)
(* bullet U+2022.  A Date is its time value, kept as whole days since      *)
(* 1970-01-01 UTC plus an hour of the day, or NaN (an Invalid Date).  The  *)
(* host timezone is a fixed offset in hours (no DST rules).                *)
(***************************************************************************)
EXTENDS Integers, Sequences, FiniteSets, TLC

VARIABLES planText,   \* the planText argument (same text for every call)
          tz,         \* host timezone: local time = UTC + tz hours
          heap,       \* Date objects: reference -> time value
          status,     \* per call: "idle", "running", "returned", "threw"
          lines,      \* per call: planText.split(/\r?\n/)
          pos,        \* per call: index of the next line forEach visits
          dayIndex,   \* per scope: the variable dayIndex
          tasks       \* per call: the array tasks

vars == <<planText, tz, heap, status, lines, pos, dayIndex, tasks>>

Calls == {1, 2}

(***************************************************************************)
(* Bounds of the model.                                                    *)
(***************************************************************************)
MaxLines == 3
MaxAfterBullet == 5

(***************************************************************************)
(* Characters.                                                             *)
(***************************************************************************)
DigitChars == <<"0", "1", "2", "3", "4", "5", "6", "7", "8", "9">>

IsDigit(ch) == \E k \in 1..10 : DigitChars[k] = ch

DigitVal(ch) == (CHOOSE k \in 1..10 : DigitChars[k] = ch) - 1

\* \s (and what trim() strips)
IsSpace(ch) == ch \in {" ", "\t", "\r", "\n"}

\* [\d\.]
IsNumCh(ch) == IsDigit(ch) \/ ch = "."

\* [\-•]
IsBullet(ch) == ch \in {"-", "*"}

\* . (any character but a line terminator)
IsDot(ch) == ch \notin {"\n", "\r"}

\* the i flag on DAY
Upper(ch) == CASE ch = "d" -> "D" [] ch = "a" -> "A" [] ch = "y" -> "Y" [] OTHER -> ch

Min(S) == CHOOSE x \in S : \A y \in S : x <= y
Max(S) == CHOOSE x \in S : \A y \in S : x >= y

\* the character classes the quantifiers run over
InClass(ch, class) ==
  CASE class = "space" -> IsSpace(ch)
    [] class = "digit" -> IsDigit(ch)
    [] class = "num" -> IsNumCh(ch)

\* end of the maximal run of characters of a class starting at index i
\* (i - 1 when the run is empty)
RunEnd(s, i, class) ==
  LET stops == {j \in i..Len(s) : ~InClass(s[j], class)}
  IN IF stops = {} THEN Len(s) ELSE Min(stops) - 1

(***************************************************************************)
(* String.prototype.trim and split(/\r?\n/).                               *)
(***************************************************************************)
Trim(s) ==
  LET keep == {i \in 1..Len(s) : ~IsSpace(s[i])}
  IN IF keep = {} THEN <<>> ELSE SubSeq(s, Min(keep), Max(keep))

StripCR(s) ==
  IF Len(s) > 0 /\ s[Len(s)] = "\r" THEN SubSeq(s, 1, Len(s) - 1) ELSE s

RECURSIVE SplitFrom(_, _, _)
SplitFrom(text, i, cur) ==
  IF i > Len(text) THEN <<cur>>
  ELSE IF text[i] = "\n" THEN <<StripCR(cur)>> \o SplitFrom(text, i + 1, <<>>)
  ELSE SplitFrom(text, i + 1, Append(cur, text[i]))

Split(text) == SplitFrom(text, 1, <<>>)

(***************************************************************************)
(* Numbers.  A number is NaN or the decimal mant / 10^exp, kept in lowest  *)
(* form so that 1.50 and 1.5 are the same value.                           *)
(***************************************************************************)
\* 8.64e15 ms, the largest time value of a Date, in days
MaxTimeDays == 100000000

NaN == [nan |-> TRUE, mant |-> 0, exp |-> 0]

RECURSIVE Normal(_, _)
Normal(mant, exp) ==
  IF exp > 0 /\ mant % 10 = 0 THEN Normal(mant \div 10, exp - 1)
  ELSE [nan |-> FALSE, mant |-> mant, exp |-> exp]

\* value of a digit string; every value above 2 * MaxTimeDays is kept as
\* one such value (all of them lead to the same Invalid Date)
RECURSIVE DecVal(_, _)
DecVal(ds, acc) ==
  IF ds = <<>> THEN acc
  ELSE IF acc > 2 * MaxTimeDays THEN acc
  ELSE DecVal(Tail(ds), acc * 10 + DigitVal(Head(ds)))

\* parseInt(digits, 10) on a match of \d+
ParseInt(ds) == DecVal(ds, 0)

\* parseFloat on a match of [\d\.]+ : the longest prefix that is a decimal
\* literal (digits, digits "." digits*, "." digits+), NaN when there is none
ParseFloat(tok) ==
  LET ie == RunEnd(tok, 1, "digit")
      hasDot == ie < Len(tok) /\ tok[ie + 1] = "."
      fe == IF hasDot THEN RunEnd(tok, ie + 2, "digit") ELSE ie
      int == SubSeq(tok, 1, ie)
      frac == IF hasDot THEN SubSeq(tok, ie + 2, fe) ELSE <<>>
  IN IF int = <<>> /\ frac = <<>> THEN NaN
     ELSE Normal(DecVal(int \o frac, 0), Len(frac))

(***************************************************************************)
(* The two regular expressions.                                            *)
(***************************************************************************)
NoMatch == [ok |-> FALSE]

\* line.match(/^DAY\s*(\d+)/i)
DayMatch(line) ==
  IF Len(line) >= 3 /\ <<Upper(line[1]), Upper(line[2]), Upper(line[3])>> = <<"D", "A", "Y">>
  THEN LET ws == RunEnd(line, 4, "space")
           de == RunEnd(line, ws + 1, "digit")
       IN IF de > ws THEN [ok |-> TRUE, digits |-> SubSeq(line, ws + 1, de)]
          ELSE NoMatch
  ELSE NoMatch

\* \s*@\s*([\d\.]+) tried right after a description ending at index e:
\* the index of "@", the first and the last index of the numeric token
SepAfter(line, e) ==
  LET at == RunEnd(line, e + 1, "space") + 1
      n1 == IF at <= Len(line) THEN RunEnd(line, at + 1, "space") + 1 ELSE 0
      n2 == IF at <= Len(line) THEN RunEnd(line, n1, "num") ELSE 0
  IN [ok |-> at <= Len(line) /\ line[at] = "@" /\ n2 >= n1, at |-> at, n1 |-> n1, n2 |-> n2]

\* ends e of a description (.+?) that starts at index b and lets the rest
\* of the pattern match
DescEnds(line, b) ==
  {e \in b..Len(line) : (\A j \in b..e : IsDot(line[j])) /\ SepAfter(line, e).ok}

\* a greedy .+ would take the longest description
GreedyEnd(ends) == Max(ends)

\* .+? is lazy: the shortest description is taken
LazyEnd(ends) == Min(ends)

\* the first \s* is greedy: the longest run is tried first, then shorter ones
GreedyStart(starts) == Max(starts)

\* line.match(/^[\-•]\s*(.+?)\s*@\s*([\d\.]+)/)
TaskMatch(line) ==
  IF Len(line) >= 1 /\ IsBullet(line[1])
  THEN LET starts == {b \in 2..(RunEnd(line, 2, "space") + 1) : DescEnds(line, b) # {}}
       IN IF starts = {} THEN NoMatch
          ELSE LET b == GreedyStart(starts)
                   e == LazyEnd(DescEnds(line, b))
                   sep == SepAfter(line, e)
               IN [ok |-> TRUE, task |-> SubSeq(line, b, e), at |-> sep.at,
                   hours |-> SubSeq(line, sep.n1, sep.n2)]
  ELSE NoMatch

(***************************************************************************)
(* Date: calendar arithmetic of the built-in object.                       *)
(***************************************************************************)
\* day number (days since 1970-01-01) of the civil date y-m-d; d may lie
\* outside the month, as setDate allows
DaysFromCivil(y, m, d) ==
  LET y1 == IF m <= 2 THEN y - 1 ELSE y
      era == y1 \div 400
      yoe == y1 - era * 400
      mp == IF m > 2 THEN m - 3 ELSE m + 9
      doy == (153 * mp + 2) \div 5 + d - 1
      doe == yoe * 365 + yoe \div 4 - yoe \div 100 + doy
  IN era * 146097 + doe - 719468

\* civil date of a day number
CivilFromDays(z) ==
  LET z1 == z + 719468
      era == z1 \div 146097
      doe == z1 - era * 146097
      yoe == (doe - doe \div 1460 + doe \div 36524 - doe \div 146096) \div 365
      doy == doe - (365 * yoe + yoe \div 4 - yoe \div 100)
      mp == (5 * doy + 2) \div 153
      d == doy - (153 * mp + 2) \div 5 + 1
      m == IF mp < 10 THEN mp + 3 ELSE mp - 9
      y == yoe + era * 400 + (IF m <= 2 THEN 1 ELSE 0)
  IN [y |-> y, m |-> m, d |-> d]

InvalidDate == [nan |-> TRUE, day |-> 0, hour |-> 0]

\* TimeClip: a time value beyond +-8.64e15 ms is NaN
TimeClip(day, hour) ==
  IF day > MaxTimeDays \/ (day = MaxTimeDays /\ hour > 0) \/ day < -MaxTimeDays
  THEN InvalidDate
  ELSE [nan |-> FALSE, day |-> day, hour |-> hour]

\* local day number and local hour of a time value in the host timezone
LocalDay(t, zone) == t.day + (t.hour + zone) \div 24
LocalHour(t, zone) == (t.hour + zone) % 24

\* the time value of local midnight of local day ld plus lh hours
FromLocal(ld, lh, zone) == TimeClip(ld + (lh - zone) \div 24, (lh - zone) % 24)

\* d.getDate(): the day of the month in the host timezone
GetDate(t, zone) == CivilFromDays(LocalDay(t, zone)).d

\* d.setDate(n): same local year, month and time of day, day of the month n
SetDate(t, n, zone) ==
  IF t.nan THEN InvalidDate
  ELSE LET c == CivilFromDays(LocalDay(t, zone))
       IN FromLocal(DaysFromCivil(c.y, c.m, n), LocalHour(t, zone), zone)

RECURSIVE Pad(_, _)
Pad(n, width) ==
  IF width = 0 THEN <<>> ELSE Append(Pad(n \div 10, width - 1), DigitChars[(n % 10) + 1])

\* the year of toISOString: four digits, or a sign and six digits
FormatYear(y) ==
  IF y >= 0 /\ y <= 9999 THEN Pad(y, 4)
  ELSE IF y < 0 THEN <<"-">> \o Pad(-y, 6) ELSE <<"+">> \o Pad(y, 6)

\* d.toISOString().split("T")[0] of a valid Date: its UTC calendar date
toISOdate(t) ==
  LET c == CivilFromDays(t.day)
  IN FormatYear(c.y) \o <<"-">> \o Pad(c.m, 2) \o <<"-">> \o Pad(c.d, 2)

(***************************************************************************)
(* parsePlanText.                                                          *)
(***************************************************************************)
\* the startDate argument of call c
StartRef(c) == c

\* new Date(startDate): a fresh object per call, never the argument itself
NewDate(c) == c + 10

Refs == {StartRef(c) : c \in Calls} \cup {NewDate(c) : c \in Calls}

\* a dayIndex declared at module level would be one variable for all calls
ScopeShared(c) == 1

\* let dayIndex: one variable per call
Scope(c) == c

\* a guard that also lets the initial -1 through
HasCurrentDayOffByOne(di) == di >= -1

\* dayIndex >= 0
HasCurrentDay(di) == di >= 0

\* tasks.unshift(...) would put the newest entry first
Unshift(arr, entry) == <<entry>> \o arr

\* tasks.push(...)
Push(arr, entry) == Append(arr, entry)

\* the call: tasks = [], dayIndex = -1, planText.split(/\r?\n/)
Call(c) ==
  /\ status[c] = "idle"
  /\ status' = [status EXCEPT ![c] = "running"]
  /\ tasks' = [tasks EXCEPT ![c] = <<>>]
  /\ dayIndex' = [dayIndex EXCEPT ![Scope(c)] = -1]
  /\ lines' = [lines EXCEPT ![c] = Split(planText)]
  /\ pos' = [pos EXCEPT ![c] = 1]
  /\ UNCHANGED <<planText, tz, heap>>

\* one run of the forEach callback, on the line at pos[c]
Step(c) ==
  /\ status[c] = "running"
  /\ pos[c] <= Len(lines[c])
  /\ LET line == Trim(lines[c][pos[c]])
         dayMatch == DayMatch(line)
         taskMatch == TaskMatch(line)
         sc == Scope(c)
         d == NewDate(c)
         copied == [heap EXCEPT ![d] = heap[StartRef(c)]]
         moved == [copied EXCEPT ![d] = SetDate(copied[d], GetDate(copied[d], tz) + dayIndex[sc], tz)]
     IN IF line = <<>>
        THEN /\ pos' = [pos EXCEPT ![c] = @ + 1]
             /\ UNCHANGED <<status, dayIndex, tasks, heap>>
        ELSE IF dayMatch.ok
        THEN /\ dayIndex' = [dayIndex EXCEPT ![sc] = ParseInt(dayMatch.digits) - 1]
             /\ pos' = [pos EXCEPT ![c] = @ + 1]
             /\ UNCHANGED <<status, tasks, heap>>
        ELSE IF taskMatch.ok /\ HasCurrentDay(dayIndex[sc])
        THEN /\ heap' = moved
             /\ IF moved[d].nan
                THEN \* toISOString throws RangeError: Invalid time value
                     /\ status' = [status EXCEPT ![c] = "threw"]
                     /\ UNCHANGED <<pos, tasks, dayIndex>>
                ELSE /\ tasks' = [tasks EXCEPT ![c] =
                           Push(@, [task |-> Trim(taskMatch.task),
                                    duration |-> ParseFloat(taskMatch.hours),
                                    date |-> toISOdate(moved[d])])]
                     /\ pos' = [pos EXCEPT ![c] = @ + 1]
                     /\ UNCHANGED <<status, dayIndex>>
        ELSE /\ pos' = [pos EXCEPT ![c] = @ + 1]
             /\ UNCHANGED <<status, dayIndex, tasks, heap>>
  /\ UNCHANGED <<planText, tz, lines>>

\* return tasks
Return(c) ==
  /\ status[c] = "running"
  /\ pos[c] > Len(lines[c])
  /\ status' = [status EXCEPT ![c] = "returned"]
  /\ UNCHANGED <<planText, tz, heap, lines, pos, dayIndex, tasks>>

Next == \E c \in Calls : Call(c) \/ Step(c) \/ Return(c)

(***************************************************************************)
(* Inputs.                                                                 *)
(***************************************************************************)
RECURSIVE Join(_)
Join(ls) ==
  IF ls = <<>> THEN <<>>
  ELSE IF Len(ls) = 1 THEN ls[1]
  ELSE ls[1] \o <<"\n">> \o Join(Tail(ls))

SeqsUpTo(S, n) == UNION {[1..k -> S] : k \in 0..n}

LineDay1 == <<"D", "A", "Y", "1", ":">>
LineDay2 == <<"d", "a", "y", " ", "2">>
LineDay3 == <<"D", "A", "Y", "3", ":">>
LineDay0 == <<"D", "A", "Y", "0">>
LineDayHuge == <<"D", "A", "Y", "1", "0", "0", "0", "0", "0", "0", "0", "0", ":">>
LineTaskA == <<"-", " ", "a", " ", "@", " ", "2">>
LineTaskB == <<" ", "*", " ", "b", "@", "1", ".", "5", "\r">>
LineOther == <<"h", "i">>

SampleLines == {LineDay1, LineDay2, LineDay0, LineDayHuge, LineTaskA, LineTaskB, LineOther}

Alphabet == {" ", "@", "1", ".", "a"}

\* local calendar days used as reference dates
RefDays == {DaysFromCivil(2025, 5, 22), DaysFromCivil(2024, 2, 28), DaysFromCivil(2023, 12, 31)}

\* a reference date at local day "day"; call 1 passes the local hour h1,
\* call 2 the local hour h2
Start(text, day, h1, h2, zone) ==
  /\ planText = text
  /\ tz = zone
  /\ heap = [r \in Refs |-> IF r = StartRef(1) THEN FromLocal(day, h1, zone)
                            ELSE IF r = StartRef(2) THEN FromLocal(day, h2, zone)
                            ELSE InvalidDate]
  /\ status = [c \in Calls |-> "idle"]
  /\ lines = [c \in Calls |-> <<>>]
  /\ pos = [c \in Calls |-> 1]
  /\ dayIndex = [c \in Calls |-> -1]
  /\ tasks = [c \in Calls |-> <<>>]

\* any text of up to MaxLines sample lines
Init ==
  \E ls \in SeqsUpTo(SampleLines, MaxLines), zone \in {0, 8}, h1 \in {3, 20}, h2 \in {3, 20} :
    Start(Join(ls), DaysFromCivil(2025, 5, 22), h1, h2, zone)

Spec == Init /\ [][Next]_vars

\* day markers and one task line, under every reference date and timezone
DateTexts ==
  {Join(<<m, LineTaskA>>) : m \in {LineDay0, LineDay1, LineDay2, LineDay3, LineDayHuge}}
    \cup {Join(<<LineDay2, LineTaskA, LineDay1, LineTaskB>>),
          Join(<<LineDay1, LineDay0, LineTaskA>>),
          Join(<<LineTaskA>>)}

InitDates ==
  \E text \in DateTexts, day \in RefDays, zone \in {-8, 0, 8}, h1 \in {0, 3, 20}, h2 \in {0, 3, 20} :
    Start(text, day, h1, h2, zone)

SpecDates == InitDates /\ [][Next]_vars

\* DAY1 followed by a line made of a bullet and up to MaxAfterBullet
\* characters
InitChars ==
  \E bullet \in {"-", "*"}, chars \in SeqsUpTo(Alphabet, MaxAfterBullet) :
    Start(Join(<<LineDay1, <<bullet>> \o chars>>), DaysFromCivil(2025, 5, 22), 3, 3, 0)

SpecChars == InitChars /\ [][Next]_vars

(***************************************************************************)
(* Vocabulary of the properties.                                           *)
(***************************************************************************)
Started(c) == status[c] # "idle"
Ended(c) == status[c] \in {"returned", "threw"}

\* number of lines the scan of call c has gone through
Seen(c) == IF Started(c) THEN pos[c] - 1 ELSE 0

IsMarker(l) == DayMatch(Trim(l)).ok
MarkerN(l) == ParseInt(DayMatch(Trim(l)).digits)
IsTaskLine(l) == ~IsMarker(l) /\ TaskMatch(Trim(l)).ok

\* index of the day marker most recently seen before line i, 0 when none
LastMarker(ls, i) ==
  LET ms == {j \in 1..(i - 1) : IsMarker(ls[j])}
  IN IF ms = {} THEN 0 ELSE Max(ms)

\* the task lines among the first n lines that stand under a marker DAYN, N >= 1
Accepted(ls, n) ==
  {i \in 1..n : /\ IsTaskLine(ls[i])
                /\ LastMarker(ls, i) # 0
                /\ MarkerN(ls[LastMarker(ls, i)]) >= 1}

\* the j-th smallest element of a set of indices
Nth(A, j) == CHOOSE i \in A : Cardinality({k \in A : k <= i}) = j

\* the line the j-th entry of call c comes from, if entries follow line order
Origin(c, j) == lines[c][Nth(Accepted(lines[c], Seen(c)), j)]

\* the calendar, day by day
IsLeap(y) == (y % 4 = 0 /\ y % 100 # 0) \/ y % 400 = 0

DaysInMonth(y, m) ==
  IF m = 2 THEN (IF IsLeap(y) THEN 29 ELSE 28)
  ELSE IF m \in {4, 6, 9, 11} THEN 30 ELSE 31

NextDay(c) ==
  IF c.d < DaysInMonth(c.y, c.m) THEN [c EXCEPT !.d = @ + 1]
  ELSE IF c.m < 12 THEN [c EXCEPT !.m = @ + 1, !.d = 1]
  ELSE [y |-> c.y + 1, m |-> 1, d |-> 1]

RECURSIVE AddDays(_, _)
AddDays(c, k) == IF k <= 0 THEN c ELSE AddDays(NextDay(c), k - 1)

YMD(c) == Pad(c.y, 4) \o <<"-">> \o Pad(c.m, 2) \o <<"-">> \o Pad(c.d, 2)

\* the reference date's own calendar date: its local year, month and day
RefCivil(c) == CivilFromDays(LocalDay(heap[StartRef(c)], tz))

\* a date string YYYY-MM-DD as the number YYYYMMDD
DateNum(str) == DecVal(SelectSeq(str, IsDigit), 0)

\* "@" at index p of the line is followed, after optional whitespace, by a
\* numeric token
Numeric(line, p) ==
  /\ line[p] = "@"
  /\ LET n == RunEnd(line, p + 1, "space") + 1
     IN n <= Len(line) /\ IsNumCh(line[n])

\* the numeric token that follows the "@" at index p
TokenAfter(line, p) ==
  LET n == RunEnd(line, p + 1, "space") + 1
  IN SubSeq(line, n, RunEnd(line, n, "num"))

\* the first "@" of the line followed by a numeric token
FirstNumericAt(line) == Min({p \in 2..Len(line) : Numeric(line, p)})

\* the first such "@" after the first character that follows the bullet
\* and its whitespace; when there is none, the "@" that directly follows
\* that whitespace
SplitAt(line) ==
  LET q == RunEnd(line, 2, "space") + 1
      later == {p \in (q + 1)..Len(line) : Numeric(line, p)}
  IN IF later # {} THEN Min(later) ELSE q

(***************************************************************************)
(* C1 (as stated): every entry carries the reference date's own calendar   *)
(* date plus N - 1 days as YYYY-MM-DD, N the number of the day marker most *)
(* recently seen before its task line.                                     *)
(***************************************************************************)
C1_DateIsReferencePlusDay ==
  \A c \in Calls : \A j \in 1..Len(tasks[c]) :
    LET i == Nth(Accepted(lines[c], Seen(c)), j)
        n == MarkerN(lines[c][LastMarker(lines[c], i)])
    IN Len(tasks[c]) = Cardinality(Accepted(lines[c], Seen(c)))
         => tasks[c][j].date = YMD(AddDays(RefCivil(c), n - 1))

(***************************************************************************)
(* C2 (as stated): parsePlanText never raises an error, whatever the text  *)
(* and the value of its day markers.                                       *)
(***************************************************************************)
C2_NeverThrows == \A c \in Calls : status[c] # "threw"

(***************************************************************************)
(* C3 (as stated): every emitted entry has a trimmed, non-empty task.      *)
(***************************************************************************)
C3_TaskTrimmedNonEmpty ==
  \A c \in Calls : \A j \in 1..Len(tasks[c]) :
    tasks[c][j].task # <<>> /\ Trim(tasks[c][j].task) = tasks[c][j].task

(***************************************************************************)
(* C4 (as stated): every emitted entry has a valid, non-negative duration; *)
(* a line whose hours token is not a number is dropped.                    *)
(***************************************************************************)
C4_DurationIsNumber ==
  \A c \in Calls : \A j \in 1..Len(tasks[c]) :
    ~tasks[c][j].duration.nan /\ tasks[c][j].duration.mant >= 0

(***************************************************************************)
(* C5 (as stated): two calls whose reference dates share the calendar date *)
(* and differ in the time of day return identical sequences.               *)
(***************************************************************************)
C5_TimeOfDayIrrelevant ==
  (status[1] = "returned" /\ status[2] = "returned" /\ RefCivil(1) = RefCivil(2))
    => tasks[1] = tasks[2]

(***************************************************************************)
(* C6: while no day marker has been processed, task lines emit nothing and *)
(* the day index stays at its initial value; a text with task lines and no *)
(* marker yields the empty sequence.                                       *)
(***************************************************************************)
C6_TaskBeforeMarkerDropped ==
  \A c \in Calls :
    (Started(c) /\ LastMarker(lines[c], Seen(c) + 1) = 0)
      => tasks[c] = <<>> /\ dayIndex[c] = -1

C6_Witness ==
  \E c \in Calls :
    /\ status[c] = "returned"
    /\ LastMarker(lines[c], Seen(c) + 1) = 0
    /\ \E i \in 1..Seen(c) : IsTaskLine(lines[c][i])
    /\ tasks[c] = <<>>

(***************************************************************************)
(* C7: the entries are, in line order, exactly the accepted task lines gone*)
(* through so far, one entry per line, repeats kept; a day-marker line     *)
(* emits nothing.                                                          *)
(***************************************************************************)
C7_LineOrderKept ==
  \A c \in Calls :
    Started(c) =>
      /\ Len(tasks[c]) = Cardinality(Accepted(lines[c], Seen(c)))
      /\ \A j \in 1..Len(tasks[c]) :
           /\ tasks[c][j].task = Trim(TaskMatch(Trim(Origin(c, j))).task)
           /\ tasks[c][j].duration = ParseFloat(TaskMatch(Trim(Origin(c, j))).hours)

C7_Witness ==
  \E c \in Calls :
    /\ status[c] = "returned"
    /\ Len(tasks[c]) = 2
    /\ tasks[c][1].task = <<"a">> /\ tasks[c][2].task = <<"b">>
    /\ Len(lines[c]) = 3 /\ IsMarker(lines[c][1])

(***************************************************************************)
(* C8: two calls with the same text and the same reference date end alike  *)
(* with identical sequences, however their steps interleave, and no call   *)
(* modifies the caller's reference date.                                   *)
(***************************************************************************)
C8_Pure ==
  /\ [](\A c, e \in Calls :
          (Ended(c) /\ Ended(e) /\ heap[StartRef(c)] = heap[StartRef(e)])
            => status[c] = status[e] /\ tasks[c] = tasks[e])
  /\ [][\A c \in Calls : heap'[StartRef(c)] = heap[StartRef(c)]]_vars

C8_Witness ==
  /\ status[1] = "returned" /\ status[2] = "returned"
  /\ heap[StartRef(1)] = heap[StartRef(2)]
  /\ Len(tasks[1]) = 2 /\ tasks[1] = tasks[2]
  /\ heap[NewDate(1)] # heap[StartRef(1)]

(***************************************************************************)
(* C9 (as stated): the description/hours split is made at the first "@"    *)
(* followed, after optional whitespace, by a numeric token.                *)
(***************************************************************************)
C9_SplitAtFirstNumericAt ==
  \A c \in Calls :
    Len(tasks[c]) = Cardinality(Accepted(lines[c], Seen(c))) =>
      \A j \in 1..Len(tasks[c]) :
        LET line == Trim(Origin(c, j))
            p == FirstNumericAt(line)
        IN /\ tasks[c][j].task = Trim(SubSeq(line, 2, p - 1))
           /\ tasks[c][j].duration = ParseFloat(TokenAfter(line, p))

(***************************************************************************)
(* C9 (amended): the split is made at the first "@" followed, after        *)
(* optional whitespace, by a numeric token that lies after the first       *)
(* character following the bullet and its whitespace, or, when the line    *)
(* has no such "@", at the "@" that directly follows that whitespace; the  *)
(* task is the trimmed text between the bullet and that "@", the hours are *)
(* the digit/decimal run that starts there, an earlier "@" stays in the    *)
(* description and the text after the run is ignored.                      *)
(***************************************************************************)
C9_SplitAtFirstNumericAtAfterText ==
  \A c \in Calls :
    Len(tasks[c]) = Cardinality(Accepted(lines[c], Seen(c))) =>
      \A j \in 1..Len(tasks[c]) :
        LET line == Trim(Origin(c, j))
            p == SplitAt(line)
        IN /\ Numeric(line, p)
           /\ tasks[c][j].task = Trim(SubSeq(line, 2, p - 1))
           /\ tasks[c][j].duration = ParseFloat(TokenAfter(line, p))

C9_Witness ==
  \E c \in Calls :
    /\ status[c] = "returned"
    /\ Len(tasks[c]) = 1
    /\ tasks[c][1].task = <<"a", "@">>
    /\ tasks[c][1].duration = ParseFloat(<<"1">>)

(***************************************************************************)
(* C10 (as stated): no entry is stamped with a day index below 0, so no    *)
(* emitted date precedes the reference date's calendar date; after DAY0    *)
(* the scan is back in the state of having no current day.                 *)
(***************************************************************************)
C10_NoDateBeforeReference ==
  \A c \in Calls :
    /\ \A j \in 1..Len(tasks[c]) : DateNum(tasks[c][j].date) >= DateNum(YMD(RefCivil(c)))
    /\ (Started(c) /\ LastMarker(lines[c], Seen(c) + 1) # 0
          /\ MarkerN(lines[c][LastMarker(lines[c], Seen(c) + 1)]) = 0)
         => dayIndex[c] = -1

====
